---- MODULE Spec2Model ----
(***************************************************************************)
(* Model of the MCP layer of auralink: the message type of                 *)
(* backend/mcp/protocol.py (MCPMessage with to_json / from_json), the      *)
(* endpoint base class (MCPEndpoint: message_queue, subscribers,           *)
(* send_message, publish) and the one endpoint that has a message loop,    *)
(* VisionMCPServer (handle_message, _handle_request, run).                 *)
(*                                                                         *)
(* Python objects are modelled by strings: enum members by their member    *)
(* name ("REQUEST", "VISION"), their wire values by the value string       *)
(* ("request", "vision"), None by "None", JSON null by "null".             *)
(***************************************************************************)
EXTENDS Integers, Sequences, FiniteSets, TLC

VARIABLES
    message_queue,  \* endpoint -> its asyncio.Queue, as a sequence of messages
    subscribers,    \* endpoint -> method -> list of callables (named by owner)
    models_loaded,  \* VisionMCPServer._models_loaded
    pc,             \* position of VisionMCPServer.run: "get", "handle", "cancelled"
    current,        \* the message run() took from the queue and is handling
    nextId,         \* number of uuid4() draws made so far
    clock,          \* the wall clock datetime.utcnow() reads
    calls,          \* completed send_message calls: what each returned / raised
    published,      \* completed publish calls: method and the subscribers then
    handled,        \* capability handler invocations of _handle_request
    invocations,    \* endpoint -> method -> number of notification callbacks run
    errors,         \* exceptions caught and printed by run()
    dispatched,     \* requests and notifications run() is done with, in order
    envelope,       \* an MCPMessage in hand: constructed, or handed to to_json
    wire,           \* codec: the JSON document produced or handed to from_json
    decoded         \* codec: what from_json returned or raised

vars == <<message_queue, subscribers, models_loaded, pc, current, nextId, clock,
          calls, published, handled, invocations, errors, dispatched, envelope,
          wire, decoded>>

protoVars == <<message_queue, subscribers, models_loaded, pc, current, nextId,
               clock, calls, published, handled, invocations, errors, dispatched>>

codecVars == <<envelope, wire, decoded>>

----------------------------------------------------------------------------
(* Bounds of the model *)

MaxIds == 2       \* messages constructed (uuid4 draws) in one behaviour
MaxClock == 1     \* ticks of the wall clock in one behaviour
Deadline == 1     \* ticks a caller is prepared to wait (the timeout of C3)

----------------------------------------------------------------------------
(* Enumerations: protocol.py lines 14-27 *)

None == "None"

\* MCPMessageType: member name -> value
MCPMessageType ==
    [REQUEST |-> "request", RESPONSE |-> "response",
     NOTIFICATION |-> "publish", ERROR |-> "error"]

\* AgentType: member name -> value
AgentType ==
    [TRANSCRIPTION |-> "transcription", VISION |-> "vision",
     GENERATION |-> "generation", ORCHESTRATOR |-> "orchestrator"]

MessageTypes == DOMAIN MCPMessageType
AgentTypes == DOMAIN AgentType

\* The endpoint objects that exist: the vision server, and a plain MCPEndpoint
\* constructed for the orchestrator (it has a queue but no message loop).
Endpoints == {"VISION", "ORCHESTRATOR"}

\* Targets a caller names: the agent that has an endpoint with a message loop,
\* and an agent for which no endpoint was ever constructed.
SendTargets == {"VISION", "TRANSCRIPTION"}

\* Method names a caller requests: one that is in the handlers table of the
\* vision server and one that is not.
Methods == {"detect_objects", "status"}

\* Method names used as notification topics.
Topics == {"status"}

\* The keys of the handlers table of _handle_request (vision_server.py 99-105).
handlers ==
    {"detect_objects", "extract_text", "caption_image", "identify_graphs",
     "process_frame"}

\* What a capability handler can return (opaque to the protocol).
HandlerResults == {"r1", "r2"}

\* The module with "import uuid" and "from datetime import datetime" added.
NamesBound_imported == TRUE

\* vision_server.py imports neither uuid nor datetime (lines 5-19), so the
\* names used at lines 115-116 and 128-129 are unbound when they are evaluated.
NamesBound == FALSE

----------------------------------------------------------------------------
(* MCPMessage: protocol.py lines 30-41 *)

MCPMessage(id, ts, src, tgt, type, method, params, result, error) ==
    [message_id |-> id, timestamp |-> ts, source |-> src, target |-> tgt,
     message_type |-> type, method |-> method, params |-> params,
     result |-> result, error |-> error]

\* Placeholder of the same shape, for "no message".
NoMessage == MCPMessage(0, 0, None, None, None, None, None, None, None)

EmptyParams == "{}"

Range(s) == {s[i] : i \in DOMAIN s}

----------------------------------------------------------------------------
(* MCPEndpoint: protocol.py lines 68-117 *)

\* send_message, lines 83-91: the request it builds.
RequestOf(e, target, method, params) ==
    MCPMessage(nextId + 1, clock, e, target, "REQUEST", method, params, None, None)

\* publish, lines 104-112: the notification it builds.
NotificationOf(e, method, params) ==
    MCPMessage(nextId + 1, clock, e, None, "NOTIFICATION", method, params, None, None)

\* asyncio.Queue.put on the unbounded queue of line 73: the message goes to
\* the end of the queue, and the caller is not suspended.
put_lifo(queue, message) == <<message>> \o queue

put(queue, message) == Append(queue, message)

\* send_message: builds the request, puts it on the endpoint's OWN queue
\* (line 95) and returns that same request (line 96).  It never raises.
SendMessage(e, target, method) ==
    /\ nextId < MaxIds
    /\ LET message == RequestOf(e, target, method, EmptyParams) IN
        /\ message_queue' = [message_queue EXCEPT ![e] = put(@, message)]
        /\ calls' = Append(calls, [caller |-> e, target |-> target, sent |-> clock,
                                returned |-> message, raised |-> None])
    /\ nextId' = nextId + 1
    /\ UNCHANGED <<subscribers, models_loaded, pc, current, clock, published,
                   handled, invocations, errors, dispatched, codecVars>>

\* The endpoints that have a callable registered for a method.
SubscribedTo(m) == {s \in Endpoints : subscribers[s][m] # <<>>}

\* publish: builds the notification and puts it on the endpoint's own queue
\* (line 113); returns None.  subscribers is not read.
Publish(e, method) ==
    /\ nextId < MaxIds
    /\ LET message == NotificationOf(e, method, EmptyParams) IN
        /\ message_queue' = [message_queue EXCEPT ![e] = put(@, message)]
        /\ published' = Append(published,
                               [caller |-> e, message |-> message,
                                subs |-> SubscribedTo(method)])
    /\ nextId' = nextId + 1
    /\ UNCHANGED <<subscribers, models_loaded, pc, current, clock, calls,
                   handled, invocations, errors, dispatched, codecVars>>

\* Registering a callable for a method in an endpoint's subscribers table.
\* The repository declares the table (line 74) and no operation on it; this is
\* subscribe(method, endpoint) of the specification, section 4.4 (idempotent).
Subscribe(e, method) ==
    /\ subscribers[e][method] = <<>>
    /\ subscribers' = [subscribers EXCEPT ![e][method] = Append(@, e)]
    /\ UNCHANGED <<message_queue, models_loaded, pc, current, nextId, clock, calls,
                   published, handled, invocations, errors, dispatched, codecVars>>

\* The wall clock advances.
Tick ==
    /\ clock < MaxClock
    /\ clock' = clock + 1
    /\ UNCHANGED <<message_queue, subscribers, models_loaded, pc, current, nextId,
                   calls, published, handled, invocations, errors, dispatched, codecVars>>

----------------------------------------------------------------------------
(* VisionMCPServer: vision_server.py *)

agent_type == "VISION"

\* The outcome of a call that may raise: the exception's name (or None) and the
\* message returned when nothing was raised.
Returned(message) == [raised |-> None, response |-> message]
Raised(exception) == [raised |-> exception, response |-> NoMessage]

\* _handle_request, lines 114-123: the response for a handler's result.
ResponseOf(message, result) ==
    MCPMessage(nextId + 1, clock, agent_type, message.source, "RESPONSE",
               message.method, "{}", result, None)

\* The same with the message type of the response branch left in place.
ErrorResponseOf_typed_response(message) ==
    MCPMessage(nextId + 1, clock, agent_type, message.source, "RESPONSE",
               message.method, "{}", None, "{'code': -32601, 'message': 'Method not found'}")

\* _handle_request, lines 127-136: the error for an unknown method.
ErrorResponseOf(message) ==
    MCPMessage(nextId + 1, clock, agent_type, message.source, "ERROR",
               message.method, "{}", None, "{'code': -32601, 'message': 'Method not found'}")

\* _handle_request, lines 95-137.  outcome is what the capability handler does:
\* one of HandlerResults, or "raise".  The handler is awaited first (108-112);
\* building the response then evaluates uuid.uuid4() and datetime.utcnow().
_handle_request(message, outcome) ==
    IF message.method \in handlers
    THEN IF outcome = "raise" THEN Raised("HandlerError")
         ELSE IF NamesBound THEN Returned(ResponseOf(message, outcome))
         ELSE Raised("NameError")
    ELSE IF NamesBound THEN Returned(ErrorResponseOf(message))
         ELSE Raised("NameError")

\* handle_message, lines 86-93.  loadOk: whether _load_models succeeds when it
\* is called (it re-raises what the model loaders raise, line 84).
handle_message(message, loadOk, outcome) ==
    IF ~models_loaded /\ ~loadOk THEN Raised("LoadError")
    ELSE IF message.message_type = "REQUEST" THEN _handle_request(message, outcome)
    ELSE Returned(message)

\* run, line 325: the message is addressed to this server, or to nobody.
Mine(message) == message.target = agent_type \/ message.target = None

\* handle_message gets as far as awaiting a capability handler (lines 108-112):
\* the one place between taking a message and being done with it where the
\* loop is suspended.
AwaitsHandler(message, loadOk) ==
    /\ Mine(message)
    /\ models_loaded \/ loadOk
    /\ message.message_type = "REQUEST"
    /\ message.method \in handlers

\* run, lines 327-329: a RESPONSE that handle_message returned is put on the
\* server's own queue; anything else is let go.
AfterDispatch(queue, r) ==
    IF r.raised = None /\ r.response.message_type = "RESPONSE"
    THEN put(queue, r.response)
    ELSE queue

\* run, lines 332-334: an exception is printed and the loop goes on (after
\* asyncio.sleep(1)).
ErrorsAfter(r) == IF r.raised # None THEN errors + 1 ELSE errors

\* uuid4 draws of _handle_request when it built a response.
IdsAfter(message, r) ==
    IF r.raised = None /\ r.response # message THEN nextId + 1 ELSE nextId

\* What one pass of the loop's body ended with: the exception run() caught,
\* or the type of the message handle_message returned.
OutcomeOf(r) == IF r.raised # None THEN r.raised ELSE r.response.message_type

\* The log of finished passes.  Only the first pass over a message is logged:
\* a message the loop put back itself is a RESPONSE.
DispatchedAfter(message, outcome) ==
    IF message.message_type \in {"REQUEST", "NOTIFICATION"}
    THEN Append(dispatched, [message |-> message, outcome |-> outcome])
    ELSE dispatched

\* run, lines 324-334, up to the next suspension: take the next message; drop
\* it if it is addressed to another agent; load the models on first use; for
\* a request with a known method start the handler and wait for it; otherwise
\* finish the dispatch at once.  No callable of subscribers is ever invoked.
RunGet ==
    /\ pc = "get"
    /\ message_queue[agent_type] # <<>>
    /\ \E loadOk \in BOOLEAN :
        LET message == Head(message_queue[agent_type])
            rest == Tail(message_queue[agent_type])
            r == handle_message(message, loadOk, "raise")
        IN
        IF ~Mine(message)
        THEN /\ message_queue' = [message_queue EXCEPT ![agent_type] = rest]
             /\ dispatched' = DispatchedAfter(message, "dropped")
             /\ UNCHANGED <<models_loaded, pc, current, nextId, errors>>
        ELSE IF AwaitsHandler(message, loadOk)
        THEN /\ message_queue' = [message_queue EXCEPT ![agent_type] = rest]
             /\ models_loaded' = TRUE
             /\ pc' = "handle"
             /\ current' = message
             /\ UNCHANGED <<nextId, errors, dispatched>>
        ELSE /\ message_queue' =
                   [message_queue EXCEPT ![agent_type] = AfterDispatch(rest, r)]
             /\ models_loaded' = (models_loaded \/ loadOk)
             /\ errors' = ErrorsAfter(r)
             /\ nextId' = IdsAfter(message, r)
             /\ dispatched' = DispatchedAfter(message, OutcomeOf(r))
             /\ UNCHANGED <<pc, current>>
    /\ UNCHANGED <<subscribers, clock, calls, published, handled, invocations,
                   codecVars>>

\* run, lines 326-334, from the handler's completion: the handler returns a
\* result or raises, _handle_request builds the response, run puts a RESPONSE
\* on the server's own queue, prints and survives any exception.
RunHandle ==
    /\ pc = "handle"
    /\ \E outcome \in HandlerResults \cup {"raise"} :
        LET r == handle_message(current, TRUE, outcome) IN
        /\ handled' = Append(handled, [id |-> current.message_id,
                                       method |-> current.method,
                                       outcome |-> outcome])
        /\ message_queue' =
              [message_queue EXCEPT ![agent_type] = AfterDispatch(@, r)]
        /\ errors' = ErrorsAfter(r)
        /\ nextId' = IdsAfter(current, r)
        /\ dispatched' = DispatchedAfter(current, OutcomeOf(r))
    /\ pc' = "get"
    /\ current' = NoMessage
    /\ UNCHANGED <<subscribers, models_loaded, clock, calls, published,
                   invocations, codecVars>>

\* run, lines 330-331: the loop's task is cancelled while it waits for a
\* message or for a handler; the loop ends, and a request it was serving is
\* lost with it.
Cancel ==
    /\ pc # "cancelled"
    /\ pc' = "cancelled"
    /\ current' = NoMessage
    /\ UNCHANGED <<message_queue, subscribers, models_loaded, nextId, clock, calls,
                   published, handled, invocations, errors, dispatched, codecVars>>

----------------------------------------------------------------------------
(* MCPMessage.to_json / from_json: protocol.py lines 43-65 *)

\* Payload values (params, result, error) as Python objects.
PyParams == {"{}", "{'image_path': 'a.png'}", "{'image_data': b'x'}"}
PyResults == {None, "1", "{'objects': []}", "[1, 2]", "(1, 2)"}
PyErrors == {None, "{'code': -32601, 'message': 'Method not found'}"}

\* The payload values built only from None, numbers, strings, lists and
\* dicts with string keys.
JsonNative ==
    {None, "1", "{}", "{'image_path': 'a.png'}", "{'objects': []}", "[1, 2]",
     "{'code': -32601, 'message': 'Method not found'}"}

\* json.dumps on a payload value: bytes are not serializable (TypeError), a
\* tuple is written as an array.
json_dumps(v) ==
    CASE v = None -> "null"
      [] v = "{'image_path': 'a.png'}" -> "{\"image_path\": \"a.png\"}"
      [] v = "{'image_data': b'x'}" -> "TypeError"
      [] v = "{'objects': []}" -> "{\"objects\": []}"
      [] v = "(1, 2)" -> "[1, 2]"
      [] v = "{'code': -32601, 'message': 'Method not found'}"
            -> "{\"code\": -32601, \"message\": \"Method not found\"}"
      [] OTHER -> v

\* json.loads on a payload value: an array is read as a list.
json_loads(j) ==
    CASE j = "null" -> None
      [] j = "{\"image_path\": \"a.png\"}" -> "{'image_path': 'a.png'}"
      [] j = "{\"objects\": []}" -> "{'objects': []}"
      [] j = "{\"code\": -32601, \"message\": \"Method not found\"}"
            -> "{'code': -32601, 'message': 'Method not found'}"
      [] OTHER -> j

\* Enum(value): the member with that value, or ValueError.
EnumOf(enum, value) ==
    IF \E k \in DOMAIN enum : enum[k] = value
    THEN CHOOSE k \in DOMAIN enum : enum[k] = value
    ELSE "ValueError"

\* to_json, lines 47-55: asdict, the enums replaced by their values (target
\* only when it is set), json.dumps.  The JSON text is modelled by the object
\* it denotes; raised is None or the exception json.dumps raises.
to_json(m) ==
    LET data == [message_id |-> m.message_id,
                 timestamp |-> m.timestamp,
                 source |-> AgentType[m.source],
                 target |-> IF m.target # None THEN AgentType[m.target] ELSE "null",
                 message_type |-> MCPMessageType[m.message_type],
                 method |-> m.method,
                 params |-> json_dumps(m.params),
                 result |-> json_dumps(m.result),
                 error |-> json_dumps(m.error)]
    IN IF "TypeError" \in {data.params, data.result, data.error}
       THEN [raised |-> "TypeError", text |-> NoMessage]
       ELSE [raised |-> None, text |-> data]

\* from_json without the lookup of lines 63-64: target is left as json.loads
\* read it.
from_json_target_unconverted(j) ==
    LET type == EnumOf(MCPMessageType, j.message_type)
        src == EnumOf(AgentType, j.source)
        tgt == IF j.target = "null" THEN None ELSE j.target
    IN IF "ValueError" \in {type, src}
       THEN [raised |-> "ValueError", message |-> NoMessage]
       ELSE [raised |-> None,
             message |-> MCPMessage(j.message_id, j.timestamp, src, tgt, type,
                                    j.method, json_loads(j.params),
                                    json_loads(j.result), json_loads(j.error))]

\* from_json, lines 57-65: json.loads, message_type and source looked up in
\* their enums, target looked up only when it is truthy, then cls(**data).
\* Nothing else is validated.
from_json(j) ==
    LET type == EnumOf(MCPMessageType, j.message_type)
        src == EnumOf(AgentType, j.source)
        tgt == IF j.target \in {"null", ""}
               THEN (IF j.target = "null" THEN None ELSE "")
               ELSE EnumOf(AgentType, j.target)
    IN IF "ValueError" \in {type, src, tgt}
       THEN [raised |-> "ValueError", message |-> NoMessage]
       ELSE [raised |-> None,
             message |-> MCPMessage(j.message_id, j.timestamp, src, tgt, type,
                                    j.method, json_loads(j.params),
                                    json_loads(j.result), json_loads(j.error))]

NoWire == [raised |-> None, text |-> NoMessage]
NoDecoded == [raised |-> None, message |-> NoMessage]

\* The MCPMessage objects handed to to_json.
Envelopes ==
    {MCPMessage(1, ts, src, tgt, type, "status", params, result, error) :
        ts \in 0..1, src \in {"VISION", "ORCHESTRATOR"},
        tgt \in {"VISION", "TRANSCRIPTION", None}, type \in MessageTypes,
        params \in PyParams, result \in PyResults, error \in PyErrors}

\* The JSON documents handed to from_json: every key present, the kind tag,
\* the agent names and result / error drawn from known and unknown values.
WireTags == {"request", "response", "notification", "publish", "error", "bogus"}

WireInputs ==
    {[message_id |-> 1, timestamp |-> 0, source |-> src, target |-> tgt,
      message_type |-> tag, method |-> "status", params |-> "{}",
      result |-> result, error |-> error] :
        src \in {"vision", "nobody"}, tgt \in {"null", "", "vision", "nobody"},
        tag \in WireTags, result \in {"null", "1"},
        error \in {"null", "{\"code\": -32601, \"message\": \"Method not found\"}"}}

\* m.to_json() is called on the message in hand.
ToJson ==
    /\ envelope # NoMessage
    /\ wire = NoWire
    /\ wire' = to_json(envelope)
    /\ UNCHANGED <<protoVars, envelope, decoded>>

\* MCPMessage.from_json(text) is called on the JSON text in hand.
FromJson ==
    /\ wire # NoWire
    /\ wire.raised = None
    /\ decoded = NoDecoded
    /\ decoded' = from_json(wire.text)
    /\ UNCHANGED <<protoVars, envelope, wire>>

----------------------------------------------------------------------------
(* The protocol as a state machine *)

ProtoInit ==
    /\ message_queue = [e \in Endpoints |-> <<>>]
    /\ subscribers = [e \in Endpoints |-> [m \in Topics |-> <<>>]]
    /\ models_loaded = FALSE
    /\ pc = "get"
    /\ current = NoMessage
    /\ nextId = 0
    /\ clock = 0
    /\ calls = <<>>
    /\ published = <<>>
    /\ handled = <<>>
    /\ invocations = [e \in Endpoints |-> [m \in Topics |-> 0]]
    /\ errors = 0
    /\ dispatched = <<>>

Init ==
    /\ ProtoInit
    /\ envelope = NoMessage
    /\ wire = NoWire
    /\ decoded = NoDecoded

Next ==
    \/ \E e \in Endpoints, t \in SendTargets, m \in Methods : SendMessage(e, t, m)
    \/ \E e \in Endpoints, m \in Topics : Publish(e, m)
    \/ \E e \in Endpoints, m \in Topics : Subscribe(e, m)
    \/ Tick
    \/ RunGet
    \/ RunHandle
    \/ Cancel

Spec == Init /\ [][Next]_vars

\* The loop's task is scheduled whenever it can run: message_queue.get()
\* returns as soon as the queue is not empty, and an awaited capability
\* handler returns or raises in the end.  Callers and cancellation are free.
FairSpec == Spec /\ WF_vars(RunGet) /\ WF_vars(RunHandle)

(* The codec on its own: a message to encode and decode again, or a JSON
   document to decode. *)
CodecInit ==
    /\ ProtoInit
    /\ decoded = NoDecoded
    /\ \/ envelope \in Envelopes /\ wire = NoWire
       \/ envelope = NoMessage /\ wire \in {[raised |-> None, text |-> j] : j \in WireInputs}

CodecNext == ToJson \/ FromJson

CodecSpec == CodecInit /\ [][CodecNext]_vars

(* The constructors on their own: the MCPMessage(...) expressions of
   send_message (protocol.py 83-91), publish (104-112) and _handle_request
   (vision_server.py 114-123, 127-136), each applied to inputs drawn from
   bounded sets, with uuid and datetime bound where the expression is
   evaluated.  current is the request _handle_request answers, envelope the
   message constructed. *)

\* Requests the vision server can be handed: any agent's, already carrying
\* an id of their own.
Requests ==
    {MCPMessage(id, ts, src, agent_type, "REQUEST", method, params, None, None) :
        id \in 1..MaxIds, ts \in 0..MaxClock, src \in AgentTypes,
        method \in Methods, params \in PyParams}

BuildInit ==
    /\ message_queue = [e \in Endpoints |-> <<>>]
    /\ subscribers = [e \in Endpoints |-> [m \in Topics |-> <<>>]]
    /\ models_loaded = TRUE
    /\ current \in Requests \cup {NoMessage}
    /\ pc = IF current = NoMessage THEN "get" ELSE "handle"
    /\ nextId \in 0..MaxIds
    /\ current.message_id <= nextId
    /\ clock \in 0..MaxClock
    /\ current.timestamp <= clock
    /\ calls = <<>>
    /\ published = <<>>
    /\ handled = <<>>
    /\ invocations = [e \in Endpoints |-> [m \in Topics |-> 0]]
    /\ errors = 0
    /\ dispatched = <<>>
    /\ envelope = NoMessage
    /\ wire = NoWire
    /\ decoded = NoDecoded

\* One constructor call: a uuid4 draw and the message it yields.
Build(message) ==
    /\ envelope = NoMessage
    /\ envelope' = message
    /\ nextId' = nextId + 1
    /\ UNCHANGED <<message_queue, subscribers, models_loaded, pc, current, clock,
                   calls, published, handled, invocations, errors, dispatched,
                   wire, decoded>>

BuildRequest(e, target, method) ==
    /\ current = NoMessage
    /\ Build(RequestOf(e, target, method, EmptyParams))

BuildNotification(e, method) ==
    /\ current = NoMessage
    /\ Build(NotificationOf(e, method, EmptyParams))

BuildResponse(result) ==
    /\ current # NoMessage
    /\ current.method \in handlers
    /\ Build(ResponseOf(current, result))

BuildErrorResponse ==
    /\ current # NoMessage
    /\ current.method \notin handlers
    /\ Build(ErrorResponseOf(current))

BuildNext ==
    \/ \E e \in Endpoints, t \in SendTargets, m \in Methods : BuildRequest(e, t, m)
    \/ \E e \in Endpoints, m \in Topics : BuildNotification(e, m)
    \/ \E result \in HandlerResults : BuildResponse(result)
    \/ BuildErrorResponse

BuildSpec == BuildInit /\ [][BuildNext]_vars

----------------------------------------------------------------------------
(* Requests: what the caller of send_message gets *)

\* The values capability handlers returned for the request with this id.
HandlerValues(id) ==
    {handled[k].outcome : k \in {n \in DOMAIN handled :
        handled[n].id = id /\ handled[n].outcome \in HandlerResults}}

\* A response or error for the request with this id is on some queue or in
\* the loop's hands.
ResponseRouted(id) ==
    \E m \in UNION {Range(message_queue[e]) : e \in Endpoints} \cup {current} :
        m.message_type \in {"RESPONSE", "ERROR"} /\ m.message_id = id

\* C1: a request sent to the live vision endpoint whose handler returned v
\* has resolved, for its caller, to v.
C1_ResolvesToHandlerValue ==
    \A i \in DOMAIN calls :
        \A v \in HandlerValues(calls[i].returned.message_id) :
            calls[i].target = agent_type => calls[i].returned.result = v

\* C2: a request whose target has no endpoint fails with UnroutableTarget.
C2_UnregisteredTargetFails ==
    \A i \in DOMAIN calls :
        calls[i].target \notin Endpoints => calls[i].raised = "UnroutableTarget"

\* C3: a request for which the deadline has elapsed with no response or error
\* routed has resolved to TimeoutError.
C3_DeadlineGivesTimeout ==
    \A i \in DOMAIN calls :
        (clock - calls[i].sent >= Deadline
            /\ ~ResponseRouted(calls[i].returned.message_id))
        => calls[i].raised = "TimeoutError"

\* C4: of two requests with distinct ids from one source to one target, both
\* served by the target's handler, each caller has the outcome of its own
\* request.
C4_EachCallerItsOwnOutcome ==
    \A i, j \in DOMAIN calls :
        (/\ i # j
         /\ calls[i].caller = calls[j].caller
         /\ calls[i].target = calls[j].target
         /\ calls[i].returned.message_id # calls[j].returned.message_id
         /\ HandlerValues(calls[i].returned.message_id) # {}
         /\ HandlerValues(calls[j].returned.message_id) # {})
        => /\ calls[i].returned.result \in HandlerValues(calls[i].returned.message_id)
           /\ calls[j].returned.result \in HandlerValues(calls[j].returned.message_id)

----------------------------------------------------------------------------
(* Notifications *)

\* The loop has taken this notification and finished with it.
Dispatched(p) ==
    /\ p.message # current
    /\ \A e \in Endpoints : p.message \notin Range(message_queue[e])

\* The publish calls for topic m made while e was subscribed to it.
PublishedTo(e, m) ==
    {k \in DOMAIN published : published[k].message.method = m /\ e \in published[k].subs}

\* C6: once the vision server's loop (never cancelled, having caught no
\* exception) has dispatched every notification published, the server's
\* handler has run once for every publish made while the server was
\* subscribed, and no handler has run on an endpoint that was not subscribed.
C6_OneInvocationPerSubscriber ==
    (/\ pc # "cancelled"
     /\ errors = 0
     /\ \A k \in DOMAIN published : Dispatched(published[k]))
    => \A m \in Topics :
          /\ invocations[agent_type][m] = Cardinality(PublishedTo(agent_type, m))
          /\ \A e \in Endpoints : PublishedTo(e, m) = {} => invocations[e][m] = 0

----------------------------------------------------------------------------
(* Encoding and decoding *)

\* The envelope invariant of the specification, section 3.
ValidEnvelope(m) ==
    /\ m.message_type \in MessageTypes
    /\ (m.target = None) <=> (m.message_type = "NOTIFICATION")
    /\ (m.result # None) <=> (m.message_type = "RESPONSE")
    /\ (m.error # None) <=> (m.message_type = "ERROR")

\* to_json succeeded and from_json returned the message it was given.
RoundTrip ==
    /\ wire # NoWire => wire.raised = None
    /\ decoded # NoDecoded => decoded.raised = None /\ decoded.message = envelope

\* C8, as stated: every valid envelope is encoded, and decodes to itself.
C8_RoundTripEveryEnvelope ==
    (envelope # NoMessage /\ ValidEnvelope(envelope)) => RoundTrip

\* C8, amended: every valid envelope whose params, result and error are built
\* only from None, numbers, strings, lists and string-keyed dicts is encoded,
\* and decodes to itself field for field, the enums restored as members.
C8_RoundTripJsonNative ==
    (/\ envelope # NoMessage
     /\ ValidEnvelope(envelope)
     /\ {envelope.params, envelope.result, envelope.error} \subseteq JsonNative)
    => RoundTrip

\* C8 witness: a valid notification (no target, JSON-native params) has gone through
\* to_json, which wrote its kind as "publish" and its target as null, and
\* through from_json.
C8_Witness ==
    /\ ValidEnvelope(envelope)
    /\ envelope.message_type = "NOTIFICATION"
    /\ envelope.params = "{'image_path': 'a.png'}"
    /\ wire.raised = None
    /\ wire.text.message_type = "publish"
    /\ wire.text.target = "null"
    /\ decoded # NoDecoded

\* The kind tags of the specification.
SpecTags == {"request", "response", "notification", "error"}

\* The document is well formed apart from its kind tag.
KnownAgents(j) == j.source = "vision" /\ j.target \in {"null", "vision"}

\* C9: from_json rejects a document whose kind tag is outside the four tags
\* of the specification, and accepts each of the four.
C9_RejectsExactlyUnknownTags ==
    (envelope = NoMessage /\ decoded # NoDecoded)
    => /\ wire.text.message_type \notin SpecTags => decoded.raised # None
       /\ (wire.text.message_type \in SpecTags /\ KnownAgents(wire.text))
            => decoded.raised = None

\* A response or error document with no target, or with both or neither of
\* result and error.
Malformed(j) ==
    /\ j.message_type \in {"response", "error"}
    /\ \/ j.target = "null"
       \/ (j.result = "null") <=> (j.error = "null")

\* C10: from_json fails on a malformed response or error document.
C10_MalformedRejected ==
    (envelope = NoMessage /\ decoded # NoDecoded /\ Malformed(wire.text))
    => decoded.raised # None

----------------------------------------------------------------------------
(* Errors, ordering, shutdown, construction and termination *)

\* The error object of lines 126-137: the reserved JSON-RPC code -32601.
MethodNotFound == "{'code': -32601, 'message': 'Method not found'}"

\* The error envelopes addressed to the source of a request that are on some
\* endpoint's queue.
ErrorsSentFor(request) ==
    {m \in UNION {Range(message_queue[e]) : e \in Endpoints} :
        m.message_type = "ERROR" /\ m.target = request.source}

\* The send_message calls that made a request and failed.
FailedCalls(request) ==
    {i \in DOMAIN calls : calls[i].returned = request /\ calls[i].raised # None}

\* The requests the loop has passed to _handle_request (the models loaded).
Served ==
    {k \in DOMAIN dispatched :
        /\ dispatched[k].message.message_type = "REQUEST"
        /\ Mine(dispatched[k].message)
        /\ dispatched[k].outcome # "LoadError"}

\* C11: once the loop is done with a request whose method is not in the
\* handlers table, an error envelope with the MethodNotFound code is on its
\* way to the request's source, or the caller's call has failed with it.
C11_UnknownMethodAnswered ==
    \A k \in Served :
        dispatched[k].message.method \notin handlers
        => \/ \E m \in ErrorsSentFor(dispatched[k].message) : m.error = MethodNotFound
           \/ FailedCalls(dispatched[k].message) # {}

\* C12: once the loop is done with a request whose handler raised, an error
\* envelope is on its way to the request's source, or the caller's call has
\* failed.
C12_HandlerFailureAnswered ==
    \A k \in Served :
        (\E n \in DOMAIN handled :
            /\ handled[n].id = dispatched[k].message.message_id
            /\ handled[n].outcome = "raise")
        => \/ ErrorsSentFor(dispatched[k].message) # {}
           \/ FailedCalls(dispatched[k].message) # {}

\* The place of a request among the messages the target's loop is done with
\* (0: the target's loop has not dispatched it).
DispatchPlace(request) ==
    IF \E k \in DOMAIN dispatched :
          dispatched[k].message = request /\ request.target = agent_type
    THEN CHOOSE k \in DOMAIN dispatched : dispatched[k].message = request
    ELSE 0

C16_RegistryNamesLiveEndpoints ==
    pc = "cancelled" => \A m \in Topics : subscribers[agent_type][m] = <<>>

C18_ConstructedEnvelopesValid ==
    envelope # NoMessage => ValidEnvelope(envelope)

\* C18 witness: a response has been constructed for a request.
C18_Witness ==
    /\ current # NoMessage
    /\ envelope.message_type = "RESPONSE"
    /\ envelope.result \in HandlerResults

\* The loop waits in message_queue.get() on an empty queue.
Idle == pc = "get" /\ message_queue[agent_type] = <<>>

\* C20: the loop, unless cancelled, ends up waiting on an empty queue for
\* good: every message is taken a bounded number of times and none is put
\* back forever.
C20_QueueDrains == <>[](Idle \/ pc = "cancelled")

\* C20 witness: a request the vision server sent to itself has been served
\* by a handler that returned, and the loop waits on an empty queue.
C20_Witness ==
    /\ Idle
    /\ \E k \in Served :
        /\ dispatched[k].message.source = agent_type
        /\ HandlerValues(dispatched[k].message.message_id) # {}

====
